---------------------------- MODULE Spec2Model ----------------------------
(***************************************************************************)
(* ADMM sparse-recovery solver (src/admm.py, class ADMM) and the BIM       *)
(* sign-gradient attack on it (src/utills.py, BIM).                        *)
(*                                                                         *)
(* Tensors are vectors and matrices of exact rationals <<num, den>>        *)
(* (den > 0, lowest terms); every torch operation the code performs is     *)
(* computed on them.  The signal has two components and the observation    *)
(* has two components.  The solver's loop is modelled line by line: one    *)
(* action per statement of ADMM.forward, one per stage of BIM's loop.      *)
(***************************************************************************)
EXTENDS Integers, Sequences, FiniteSets

(***************************************************************************)
(* Bounds of the model.                                                    *)
(***************************************************************************)
\* largest max_iter a solver is constructed with
MaxIter == 2
\* largest number of BIM steps an attack is called with
MaxSteps == 2
\* largest number of solves the caller issues on one instance
MaxCalls == 2

(***************************************************************************)
(* Exact rational arithmetic: the real-number meaning of the float32       *)
(* tensor arithmetic.                                                      *)
(***************************************************************************)
AbsInt(i) == IF i < 0 THEN -i ELSE i

RECURSIVE GCD(_, _)
GCD(a, b) == IF b = 0 THEN a ELSE GCD(b, a % b)

\* n/d in lowest terms with a positive denominator (d # 0)
Norm(n, d) ==
    LET g == GCD(AbsInt(n), AbsInt(d))
        sg == IF d < 0 THEN -1 ELSE 1
    IN  <<(sg * n) \div g, AbsInt(d) \div g>>

Rat(n, d) == Norm(n, d)

Zero == <<0, 1>>

One == <<1, 1>>

RNeg(a) == <<-a[1], a[2]>>

RAdd(a, b) ==
    LET g == GCD(a[2], b[2])
        l == (a[2] \div g) * b[2]
    IN  Norm(a[1] * (l \div a[2]) + b[1] * (l \div b[2]), l)

RSub(a, b) == RAdd(a, RNeg(b))

RMul(a, b) ==
    LET g1 == GCD(AbsInt(a[1]), b[2])
        g2 == GCD(AbsInt(b[1]), a[2])
    IN  Norm((a[1] \div g1) * (b[1] \div g2), (a[2] \div g2) * (b[2] \div g1))

\* a / b for b # 0
RDiv(a, b) == RMul(a, Norm(b[2], b[1]))

RLeq(a, b) == RSub(a, b)[1] <= 0

RAbs(a) == <<AbsInt(a[1]), a[2]>>

\* torch.sign: -1, 0 or 1
RSign(a) == IF a[1] > 0 THEN One ELSE IF a[1] < 0 THEN RNeg(One) ELSE Zero

\* element of torch.max(a, b)
RMax(a, b) == IF RLeq(a, b) THEN b ELSE a

RMin(a, b) == IF RLeq(a, b) THEN a ELSE b

(***************************************************************************)
(* Vectors (column tensors) and matrices (sequences of rows).              *)
(***************************************************************************)
VAdd(a, b) == [i \in DOMAIN a |-> RAdd(a[i], b[i])]

VSub(a, b) == [i \in DOMAIN a |-> RSub(a[i], b[i])]

VScale(c, a) == [i \in DOMAIN a |-> RMul(c, a[i])]

RECURSIVE SumTo(_, _)
SumTo(a, n) == IF n = 0 THEN Zero ELSE RAdd(SumTo(a, n - 1), a[n])

\* torch.sum over all elements
VSum(a) == SumTo(a, Len(a))

Dot(a, b) == VSum([i \in DOMAIN a |-> RMul(a[i], b[i])])

MatVec(M, a) == [i \in DOMAIN M |-> Dot(M[i], a)]

Transpose(M) == [j \in DOMAIN M[1] |-> [i \in DOMAIN M |-> M[i][j]]]

MatMul(A, B) ==
    [i \in DOMAIN A |-> [j \in DOMAIN B[1] |->
        Dot(A[i], [r \in DOMAIN B |-> B[r][j]])]]

MatAdd(A, B) == [i \in DOMAIN A |-> [j \in DOMAIN A[i] |-> RAdd(A[i][j], B[i][j])]]

\* c * torch.eye(n) for the n columns of M
ScaledEye(c, M) ==
    [i \in DOMAIN M[1] |-> [j \in DOMAIN M[1] |-> IF i = j THEN c ELSE Zero]]

\* determinant of a 2 x 2 matrix
Det(M) == RSub(RMul(M[1][1], M[2][2]), RMul(M[1][2], M[2][1]))

\* torch.linalg.inv of a non-singular 2 x 2 matrix
Inv(M) ==
    LET d == Det(M)
    IN  << <<RDiv(M[2][2], d), RDiv(RNeg(M[1][2]), d)>>,
           <<RDiv(RNeg(M[2][1]), d), RDiv(M[1][1], d)>> >>

\* torch.zeros((H.shape[1], 1))
Zeros == <<Zero, Zero>>

\* a tensor that has not been assigned yet
None == <<>>

VARIABLES
    \* the ADMM instance
    inst, cfg, left_term, s, u, v,
    \* the frame of ADMM.forward
    fpc, caller, x, k, s_prev, v_prev, u_prev, right_term, recovery_errors,
    broke, ret,
    \* the frame of BIM
    bpc, original_x, adv_x, eps, alpha, steps, step, delta, bret,
    \* the caller (execute): what it has issued and what it holds
    calls, bimUsed, left, fresh, startedFresh, hist,
    \* the shrinkage operator applied on its own
    sh_x, sh_beta, sh_out

instVars == <<inst, cfg, left_term, s, u, v>>

fwdVars == <<fpc, caller, x, k, s_prev, v_prev, u_prev, right_term,
             recovery_errors, broke, ret>>

bimVars == <<bpc, original_x, adv_x, eps, alpha, steps, step, delta, bret>>

callerVars == <<calls, bimUsed, left, fresh, startedFresh, hist>>

shVars == <<sh_x, sh_beta, sh_out>>

vars == <<instVars, fwdVars, bimVars, callerVars, shVars>>


(***************************************************************************)
(* Module-level data of utills.py and the inputs the operations are        *)
(* called with.                                                            *)
(***************************************************************************)
\* utills.H: the module-global sensing matrix, with orthonormal rows
GlobalH == << <<Zero, Rat(-1, 1)>>, <<One, Zero>> >>

\* another sensing matrix a caller may pass to create_ADMM(H=...)
OtherH == << <<One, Zero>>, <<Zero, Zero>> >>

HSet == {GlobalH, OtherH}

\* the hyperparameters are all positive
Positive(c) ==
    /\ c.mu[1] > 0
    /\ c.lambda_[1] > 0
    /\ c.max_iter > 0
    /\ c.eps[1] > 0
    /\ c.rho[1] > 0

NonPositiveCount(c) ==
    (IF c.mu[1] > 0 THEN 0 ELSE 1) + (IF c.lambda_[1] > 0 THEN 0 ELSE 1)
    + (IF c.max_iter > 0 THEN 0 ELSE 1) + (IF c.eps[1] > 0 THEN 0 ELSE 1)
    + (IF c.rho[1] > 0 THEN 0 ELSE 1)

\* the arguments ADMM(...) is called with: any values, since the constructor
\* tests none of them; at most one of them non-positive
Configs ==
    {c \in [H : HSet, mu : {Zero, One}, lambda_ : {Zero, One},
            max_iter : -1 .. MaxIter, eps : {Zero, One},
            rho : {Zero, One}] : NonPositiveCount(c) <= 1}

\* observations x the caller solves for and attacks
Obs == { <<Rat(2, 1), Zero>>, <<One, Rat(-2, 1)>> }

\* the observation the caller attacks
AttackObs == { <<One, Rat(-2, 1)>> }

\* BIM's eps and alpha arguments
EpsSet == {Zero, Rat(3, 2)}

AlphaSet == {One, Rat(2, 1)}

\* the values grad.sign() can take
SignVectors == {<<a, b>> : a \in {RNeg(One), Zero, One}, b \in {RNeg(One), Zero, One}}

(***************************************************************************)
(* ADMM.__init__ / ADMM.create_ADMM                                        *)
(***************************************************************************)
\* H^T H + rho * I
Gram(c) == MatAdd(MatMul(Transpose(c.H), c.H), ScaledEye(c.rho, c.H))

\* No argument is tested.  torch.linalg.inv raises on a singular matrix and
\* then no instance exists; otherwise the instance starts from s = u = v = 0.
Construct(c) ==
    /\ inst = "none"
    /\ cfg' = c
    /\ IF Det(Gram(c)) = Zero
       THEN /\ inst' = "LinAlgError"
            /\ UNCHANGED <<left_term, s, u, v, left, fresh>>
       ELSE /\ inst' = "ok"
            /\ left_term' = Inv(Gram(c))
            /\ s' = Zeros
            /\ u' = Zeros
            /\ v' = Zeros
            /\ left' = <<Zeros, Zeros, Zeros>>
            /\ fresh' = TRUE
    /\ UNCHANGED <<fwdVars, bimVars, calls, bimUsed, startedFresh, hist, shVars>>

\* reset(): zero the solver state (s, u, v), as the constructor sets it.
\* class ADMM defines no such method; its effect is the one the design
\* document gives it.
Reset ==
    /\ inst = "ok"
    /\ fpc = "idle"
    /\ bpc \in {"idle", "returned"}
    /\ s' = Zeros
    /\ u' = Zeros
    /\ v' = Zeros
    /\ left' = <<Zeros, Zeros, Zeros>>
    /\ fresh' = TRUE
    /\ UNCHANGED <<inst, cfg, left_term, fwdVars, bimVars, calls, bimUsed,
                   startedFresh, hist, shVars>>

(***************************************************************************)
(* ADMM.shrinkage                                                          *)
(***************************************************************************)
ShrinkageNoMax(xv, beta) ==
    [i \in DOMAIN xv |-> RMul(RSign(xv[i]), RSub(RAbs(xv[i]), beta))]

shrinkage(xv, beta) ==
    [i \in DOMAIN xv |->
        RMul(RSign(xv[i]), RMax(RSub(RAbs(xv[i]), beta), Zeros[i]))]

(***************************************************************************)
(* ADMM.forward, statement by statement                                    *)
(***************************************************************************)
InitErrorsKept(old) == old

\* recovery_errors = []
InitErrors(old) == <<>>

EnterReset(xin, who) ==
    /\ fpc' = "for"
    /\ caller' = who
    /\ x' = xin
    /\ k' = 0
    /\ recovery_errors' = InitErrors(recovery_errors)
    /\ broke' = FALSE
    /\ s_prev' = None
    /\ v_prev' = None
    /\ u_prev' = None
    /\ right_term' = None
    /\ startedFresh' = fresh
    /\ fresh' = FALSE
    /\ s' = Zeros
    /\ u' = Zeros
    /\ v' = Zeros
    /\ UNCHANGED <<inst, cfg, left_term, ret, left, hist, bimUsed, shVars>>

\* the call model(x): a new frame; the instance's s, u, v are not touched
Enter(xin, who) ==
    /\ fpc' = "for"
    /\ caller' = who
    /\ x' = xin
    /\ k' = 0
    /\ recovery_errors' = InitErrors(recovery_errors)
    /\ broke' = FALSE
    /\ s_prev' = None
    /\ v_prev' = None
    /\ u_prev' = None
    /\ right_term' = None
    /\ startedFresh' = fresh
    /\ fresh' = FALSE
    /\ UNCHANGED <<instVars, ret, left, hist, bimUsed, shVars>>

\* for k in range(self.max_iter): s_prev, v_prev, u_prev = self.s, self.v, self.u
For ==
    /\ fpc = "for"
    /\ IF k < cfg.max_iter
       THEN /\ s_prev' = s
            /\ v_prev' = v
            /\ u_prev' = u
            /\ fpc' = "s"
       ELSE /\ fpc' = "return"
            /\ UNCHANGED <<s_prev, v_prev, u_prev>>
    /\ UNCHANGED <<instVars, caller, x, k, right_term, recovery_errors, broke,
                   ret, bimVars, callerVars, shVars>>

\* right_term = torch.matmul(H.T, x) + self.rho * (v_prev - u_prev),
\* where H is the module global utills.H
RightTerm == VAdd(MatVec(Transpose(GlobalH), x), VScale(cfg.rho, VSub(v_prev, u_prev)))

\* self.s = self.left_term @ right_term
UpdateS ==
    /\ fpc = "s"
    /\ right_term' = RightTerm
    /\ s' = MatVec(left_term, right_term')
    /\ fpc' = "v"
    /\ UNCHANGED <<inst, cfg, left_term, u, v, caller, x, k, s_prev, v_prev,
                   u_prev, recovery_errors, broke, ret, bimVars, callerVars,
                   shVars>>

NewVStale == shrinkage(VAdd(s_prev, u_prev), RDiv(cfg.rho, RMul(Rat(2, 1), cfg.lambda_)))

NewV == shrinkage(VAdd(s, u_prev), RDiv(cfg.rho, RMul(Rat(2, 1), cfg.lambda_)))

\* self.v = self.shrinkage(self.s + u_prev, self.rho / (2 * self.lambda_));
\* the division of two Python floats raises ZeroDivisionError for lambda_ = 0
UpdateV ==
    /\ fpc = "v"
    /\ IF cfg.lambda_ = Zero
       THEN /\ fpc' = "raised"
            /\ bpc' = IF caller = "BIM" THEN "raised" ELSE bpc
            /\ left' = <<s, u, v>>
            /\ v' = v
       ELSE /\ v' = NewV
            /\ fpc' = "u"
            /\ UNCHANGED <<bpc, left>>
    /\ UNCHANGED <<inst, cfg, left_term, s, u, caller, x, k, s_prev, v_prev,
                   u_prev, right_term, recovery_errors, broke, ret,
                   original_x, adv_x, eps, alpha, steps, step, delta, bret,
                   calls, bimUsed, fresh, startedFresh, hist, shVars>>

\* self.u = u_prev + self.mu * (self.s - self.v)
UpdateU ==
    /\ fpc = "u"
    /\ u' = VAdd(u_prev, VScale(cfg.mu, VSub(s, v)))
    /\ fpc' = "test"
    /\ UNCHANGED <<inst, cfg, left_term, s, v, caller, x, k, s_prev, v_prev,
                   u_prev, right_term, recovery_errors, broke, ret, bimVars,
                   callerVars, shVars>>

\* torch.sum(torch.abs(a))
L1(a) == VSum([i \in DOMAIN a |-> RAbs(a[i])])

\* if torch.sum(torch.abs(self.s - s_prev)) <= self.eps: break
Test ==
    /\ fpc = "test"
    /\ IF RLeq(L1(VSub(s, s_prev)), cfg.eps)
       THEN /\ broke' = TRUE
            /\ fpc' = "return"
       ELSE /\ broke' = FALSE
            /\ fpc' = "append"
    /\ UNCHANGED <<instVars, caller, x, k, s_prev, v_prev, u_prev, right_term,
                   recovery_errors, ret, bimVars, callerVars, shVars>>

\* torch.sum((torch.matmul(self.H, self.s) - x) ** 2)
Residual ==
    LET r == VSub(MatVec(cfg.H, s), x)
    IN  VSum([i \in DOMAIN r |-> RMul(r[i], r[i])])

\* recovery_errors.append(...), then the next k of the loop
AppendError ==
    /\ fpc = "append"
    /\ recovery_errors' = Append(recovery_errors, Residual)
    /\ k' = k + 1
    /\ fpc' = "for"
    /\ UNCHANGED <<instVars, caller, x, s_prev, v_prev, u_prev, right_term,
                   broke, ret, bimVars, callerVars, shVars>>

\* return self.s, recovery_errors
Return ==
    /\ fpc = "return"
    /\ ret' = [s |-> s, errs |-> recovery_errors]
    /\ left' = <<s, u, v>>
    /\ fpc' = "idle"
    /\ IF caller = "BIM"
       THEN /\ bpc' = "grad"
            /\ hist' = hist
       ELSE /\ bpc' = bpc
            /\ hist' = IF startedFresh
                       THEN Append(hist, [x |-> x, s |-> s, errs |-> recovery_errors])
                       ELSE hist
    /\ UNCHANGED <<instVars, caller, x, k, s_prev, v_prev, u_prev, right_term,
                   recovery_errors, broke, original_x, adv_x, eps, alpha,
                   steps, step, delta, bret, calls, bimUsed, fresh,
                   startedFresh, shVars>>

\* execute: s, errs = model(x): up to MaxCalls solves of observations on one
\* instance, or the one solve of BIM's result that follows an attack
CallForward(xin) ==
    /\ inst = "ok"
    /\ fpc = "idle"
    /\ bpc \in {"idle", "returned"}
    /\ calls < (IF bimUsed THEN 1 ELSE MaxCalls)
    /\ calls' = calls + 1
    /\ Enter(xin, "main")
    /\ UNCHANGED bimVars

(***************************************************************************)
(* BIM (utills.py)                                                         *)
(***************************************************************************)
\* torch.clamp(t, min=lo, max=hi): min(max(t, lo), hi), element by element
ClampNoMax(t, lo, hi) == [i \in DOMAIN t |-> RMax(t[i], lo)]

Clamp(t, lo, hi) == [i \in DOMAIN t |-> RMin(RMax(t[i], lo), hi)]

ProjectOntoAdv(adv, orig, e) == VAdd(adv, Clamp(VSub(adv, orig), RNeg(e), e))

\* eta = torch.clamp(adv_x - original_x, min=-eps, max=eps); adv_x = original_x + eta
Project(adv, orig, e) == VAdd(orig, Clamp(VSub(adv, orig), RNeg(e), e))

\* BIM(model, x, s_gt, eps, alpha, steps): original_x = x.data;
\* adv_x = x.clone().  As in execute, the attack is the first use of a newly
\* created instance.  s_gt enters only the gradient, whose sign BIMStep
\* leaves open.
CallBIM(xin, e, a, n) ==
    /\ inst = "ok"
    /\ fpc = "idle"
    /\ bpc = "idle"
    /\ calls = 0
    /\ fresh
    /\ ~bimUsed
    /\ bimUsed' = TRUE
    /\ original_x' = xin
    /\ adv_x' = xin
    /\ eps' = e
    /\ alpha' = a
    /\ steps' = n
    /\ step' = 0
    /\ delta' = None
    /\ bpc' = "for"
    /\ UNCHANGED <<instVars, fwdVars, bret, calls, left, fresh, startedFresh,
                   hist, shVars>>

\* for step in range(steps): s_hat, errs = model(adv_x); after the loop,
\* return adv_x, delta, where delta is unbound if no step ran
BIMFor ==
    /\ bpc = "for"
    /\ IF step < steps
       THEN /\ bpc' = "model"
            /\ Enter(adv_x, "BIM")
            /\ UNCHANGED bret
       ELSE /\ IF delta = None
               THEN /\ bpc' = "raised"
                    /\ UNCHANGED bret
               ELSE /\ bpc' = "returned"
                    /\ bret' = [adv_x |-> adv_x, delta |-> delta]
            /\ UNCHANGED <<instVars, fwdVars, left, fresh, startedFresh, hist,
                           bimUsed, shVars>>
    /\ UNCHANGED <<original_x, adv_x, eps, alpha, steps, step, delta, calls>>

\* grad = torch.autograd.grad(cost, adv_x)[0]; delta = alpha * grad.sign();
\* adv_x = adv_x + delta; clamp; adv_x = original_x + eta.
\* s_hat depends on adv_x only through an executed iteration of forward:
\* with none, autograd raises.  The sign of each gradient component is any
\* of -1, 0, 1.
BIMStep(g) ==
    /\ bpc = "grad"
    /\ IF cfg.max_iter <= 0
       THEN /\ bpc' = "raised"
            /\ UNCHANGED <<adv_x, delta, step>>
       ELSE /\ delta' = VScale(alpha, g)
            /\ adv_x' = Project(VAdd(adv_x, delta'), original_x, eps)
            /\ step' = step + 1
            /\ bpc' = "for"
    /\ UNCHANGED <<instVars, fwdVars, original_x, eps, alpha, steps, bret,
                   callerVars, shVars>>

(***************************************************************************)
(* The program                                                             *)
(***************************************************************************)
ProgramInit ==
    /\ inst = "none"
    /\ cfg = None
    /\ left_term = None
    /\ s = None
    /\ u = None
    /\ v = None
    /\ fpc = "idle"
    /\ caller = "main"
    /\ x = None
    /\ k = 0
    /\ s_prev = None
    /\ v_prev = None
    /\ u_prev = None
    /\ right_term = None
    /\ recovery_errors = <<>>
    /\ broke = FALSE
    /\ ret = [s |-> None, errs |-> <<>>]
    /\ bpc = "idle"
    /\ original_x = None
    /\ adv_x = None
    /\ eps = Zero
    /\ alpha = Zero
    /\ steps = 0
    /\ step = 0
    /\ delta = None
    /\ bret = [adv_x |-> None, delta |-> None]
    /\ calls = 0
    /\ bimUsed = FALSE
    /\ left = <<None, None, None>>
    /\ fresh = FALSE
    /\ startedFresh = FALSE
    /\ hist = <<>>

Init ==
    /\ ProgramInit
    /\ sh_x = None
    /\ sh_beta = Zero
    /\ sh_out = None

\* what the caller passes to model(...): an observation or, after an attack,
\* the adversarial observation BIM returned
SolveInputs == IF bpc = "returned" THEN {bret.adv_x} ELSE Obs

Next ==
    \/ \E c \in Configs : Construct(c)
    \/ Reset
    \/ \E xin \in SolveInputs : CallForward(xin)
    \/ For
    \/ UpdateS
    \/ UpdateV
    \/ UpdateU
    \/ Test
    \/ AppendError
    \/ Return
    \/ \E xin \in AttackObs, e \in EpsSet, a \in AlphaSet, n \in 0 .. MaxSteps :
          CallBIM(xin, e, a, n)
    \/ BIMFor
    \/ \E g \in SignVectors : BIMStep(g)

Spec == Init /\ [][Next]_vars

(***************************************************************************)
(* ADMM.shrinkage on its own: the inputs are drawn from bounded sets and   *)
(* the operator is applied to them.                                        *)
(***************************************************************************)
ShrinkValues ==
    {Rat(-2, 1), Rat(-1, 1), Rat(-1, 2), Zero, Rat(1, 2), One, Rat(2, 1)}

ShrinkInputs == {<<a, b>> : a \in ShrinkValues, b \in ShrinkValues}

ShrinkBetas == {Rat(-1, 2), Zero, Rat(1, 2), One, Rat(2, 1), Rat(3, 1)}

ShrinkInit ==
    /\ ProgramInit
    /\ sh_x \in ShrinkInputs
    /\ sh_beta \in ShrinkBetas
    /\ sh_out = None

ApplyShrinkage ==
    /\ sh_out = None
    /\ sh_out' = shrinkage(sh_x, sh_beta)
    /\ UNCHANGED <<instVars, fwdVars, bimVars, callerVars, sh_x, sh_beta>>

ShrinkNext == ApplyShrinkage

ShrinkSpec == ShrinkInit /\ [][ShrinkNext]_vars

(***************************************************************************)
(* Properties                                                              *)
(***************************************************************************)
\* the perturbation adv_x - original_x
Perturbation == VSub(adv_x, original_x)

\* C1: in BIM, for eps >= 0, every component of adv_x - original_x lies in
\* [-eps, eps] from the call on: after every step of the loop and at return,
\* whatever alpha and the gradient signs are.
C1_PerturbationWithinBudget ==
    (bpc # "idle" /\ RLeq(Zero, eps)) =>
        \A i \in DOMAIN adv_x :
            /\ RLeq(RNeg(eps), Perturbation[i])
            /\ RLeq(Perturbation[i], eps)

\* C1 witness: the second step alpha * sign = 1 takes a component from 1 to 2,
\* over the budget 3/2, and the returned component sits on the budget.
C1_Witness ==
    /\ bpc = "returned"
    /\ step = 2
    /\ alpha = One
    /\ eps = Rat(3, 2)
    /\ delta[1] = One
    /\ Perturbation[1] = eps

Executed == k + (IF broke THEN 1 ELSE 0)

\* C3: every solve returns normally (no exception leaves forward) after at
\* most max_iter iterations, with at most max_iter trace entries.
C3_SolveReturnsWithinMaxIter ==
    /\ fpc # "raised"
    /\ fpc = "return" =>
          /\ Executed <= cfg.max_iter
          /\ Len(recovery_errors) <= cfg.max_iter

\* C4: at return the trace holds one entry per iteration whose convergence
\* test failed and none for the iteration whose test passed, and its length
\* equals max_iter if and only if no iteration met the test.
C4_TraceLengthIffNoConvergence ==
    fpc = "return" =>
        /\ Len(recovery_errors) = k
        /\ (Len(recovery_errors) = cfg.max_iter) <=> ~broke

\* C5: a construction with a non-positive hyperparameter fails with
\* InvalidConfiguration; no instance with a non-positive hyperparameter exists.
C5_NonPositiveRejected ==
    inst # "none" => (Positive(cfg) \/ inst = "InvalidConfiguration")

\* C6: a solve does not reset the state on entry: the first iteration of
\* every call (from the caller or from BIM) reads the (s, u, v) the previous
\* call left, which is all-zero when nothing ran since the construction.
C6_NoResetOnEntry ==
    (fpc = "s" /\ k = 0) => <<s_prev, u_prev, v_prev>> = left

\* C6 witness: the first iteration of a solve issued by the caller after an
\* attack starts from a non-zero state.
C6_Witness ==
    /\ fpc = "s"
    /\ k = 0
    /\ caller = "main"
    /\ bimUsed
    /\ s_prev # Zeros
    /\ u_prev # Zeros
    /\ v_prev # Zeros

\* C7: two solves of the same observation, each started from the zeroed
\* state, return the same estimate and the same trace.
C7_ResetSolveDeterministic ==
    \A i, j \in DOMAIN hist : hist[i].x = hist[j].x => hist[i] = hist[j]

\* C7 witness: reset, solve(x), reset, solve(x) has returned twice, each time
\* with a non-empty trace.
C7_Witness ==
    /\ Len(hist) = 2
    /\ hist[1].x = hist[2].x
    /\ Len(hist[1].errs) >= 1
    /\ hist[2].s # Zeros
    /\ fresh = FALSE

\* C8: shrinkage(x, beta) is zero in every component with |x| <= beta and
\* sign(x) * (|x| - beta) in the others; shrinkage(x, 0) = x; the output is
\* all-zero when beta is at least the largest |x|.
C8_ShrinkageBoundary ==
    sh_out # None =>
        /\ \A i \in DOMAIN sh_x :
              IF RLeq(RAbs(sh_x[i]), sh_beta)
              THEN sh_out[i] = Zero
              ELSE sh_out[i] = RMul(RSign(sh_x[i]), RSub(RAbs(sh_x[i]), sh_beta))
        /\ sh_beta = Zero => sh_out = sh_x
        /\ (\A i \in DOMAIN sh_x : RLeq(RAbs(sh_x[i]), sh_beta)) => sh_out = Zeros

\* C8 witness: one component is zeroed by the threshold, the other is shrunk
\* towards zero and stays negative.
C8_Witness ==
    /\ sh_out # None
    /\ sh_x = <<Rat(1, 2), Rat(-2, 1)>>
    /\ sh_beta = One
    /\ sh_out = <<Zero, Rat(-1, 1)>>

\* the threshold penalty / (2 * lambda)
Threshold == RDiv(cfg.rho, RMul(Rat(2, 1), cfg.lambda_))

\* C9: an iteration updates s, then v, then u, then tests convergence: the
\* new s comes from the previous v and u; the new v from the new s and the
\* previous u, with threshold penalty / (2 * lambda); the new u from the
\* previous u and the new s and v; the test compares the new s with the s
\* held when the iteration started.
C9_UpdateOrder ==
    [][/\ (fpc = "for" /\ fpc' = "s") => (s_prev' = s /\ s' = s)
       /\ fpc = "s" =>
             /\ fpc' = "v"
             /\ s' = MatVec(left_term,
                            VAdd(MatVec(Transpose(GlobalH), x),
                                 VScale(cfg.rho, VSub(v, u))))
             /\ v' = v
             /\ u' = u
             /\ s_prev' = s
       /\ (fpc = "v" /\ fpc' # "raised") =>
             /\ fpc' = "u"
             /\ v' = shrinkage(VAdd(s, u), Threshold)
             /\ s' = s
             /\ u' = u
       /\ fpc = "u" =>
             /\ fpc' = "test"
             /\ u' = VAdd(u, VScale(cfg.mu, VSub(s, v)))
             /\ s' = s
             /\ v' = v
       /\ fpc = "test" =>
             /\ (fpc' = "return") <=> RLeq(L1(VSub(s, s_prev)), cfg.eps)
             /\ fpc' \in {"return", "append"}
             /\ <<s', u', v'>> = <<s, u, v>>
      ]_vars

\* C9 witness: a second or later iteration of a solve with positive
\* hyperparameters reached its test with s, u and v all changed in it.
C9_Witness ==
    /\ fpc = "test"
    /\ k >= 1
    /\ Positive(cfg)
    /\ s # s_prev
    /\ u # u_prev
    /\ v # v_prev

\* C10: every iteration forms H^T x with the instance's own H, and the cached
\* inverse is (H^T H + penalty * I)^-1 of that same H and penalty.
C10_OwnOperatorUsed ==
    fpc = "v" =>
        /\ right_term = VAdd(MatVec(Transpose(cfg.H), x),
                             VScale(cfg.rho, VSub(v_prev, u_prev)))
        /\ left_term = Inv(Gram(cfg))

==========================================================================
